---- MODULE Spec2Model ----
(***************************************************************************)
(* Model of the block codec of blockrs (src/src/block.rs): Block,          *)
(* array_to_blocks, option_array_to_blocks, blocks_to_array,               *)
(* pairwise_to_blocks and remove_sites.  Every function is pure, so each   *)
(* behaviour is one call: Init draws the function and its arguments, the   *)
(* action of that function computes its return value.                      *)
(***************************************************************************)
EXTENDS Integers, Sequences, FiniteSets, TLC

VARIABLES fn, args, ret, pc

vars == <<fn, args, ret, pc>>

(* ---------------------------- bounds ----------------------------------- *)

\* longest position array handed to array_to_blocks
MaxLen == 5
\* position values range over -MaxNegPos..MaxPos
MaxPos == 2
MaxNegPos == 2
\* longest sparse array handed to option_array_to_blocks
MaxSparseLen == 4
\* longest aligned sequence handed to pairwise_to_blocks
MaxAlnLen == 5
\* longest sequence handed to remove_sites
MaxSeqLen == 2
\* longest block list handed to blocks_to_array and remove_sites
MaxBlocks == 1
\* block fields of input block lists range from the start of a gap-run
\* block up to MaxCoord
MaxCoord == 2
\* longest removal list handed to remove_sites
MaxRemove == 2
\* longest text handed to from_block_str
MaxTextLen == 5
\* longest block list handed to to_block_str, its fields range over
\* -MaxTextCoord..MaxTextCoord
MaxTextBlocks == 2
MaxTextCoord == 10

(* --------------------------- helpers ----------------------------------- *)

SeqsUpTo(S, n) == UNION {[1..k -> S] : k \in 0..n}

\* the value of a Rust call: Ok(v), Err(exception), or a panic (abort)
Ok(v) == [kind |-> "Ok", val |-> v]
Err(exc, msg) == [kind |-> "Err", exc |-> exc, msg |-> msg]
Panic(msg) == [kind |-> "Panic", msg |-> msg]

(* ----------------------------- Block ----------------------------------- *)

\* Block::new: no validation
Block(start, stop) == [start |-> start, stop |-> stop]

\* Block::check_new: rejects stop < start whatever the sign of start
check_new(start, stop) ==
    IF stop < start
    THEN Err("ValueError", "stop cannot be less than start")
    ELSE Ok(Block(start, stop))

\* Block.__new__ (the Python constructor): the same test as check_new
py_new(start, stop) ==
    IF stop < start
    THEN Err("ValueError", "stop cannot be less than start")
    ELSE Ok(Block(start, stop))

(* --------------------- from_block_str, to_block_str -------------------- *)

\* a string is a sequence of one-character strings
DigitChars == <<"0", "1", "2", "3", "4", "5", "6", "7", "8", "9">>

IsDigit(c) == \E d \in 1..Len(DigitChars) : DigitChars[d] = c

DigitVal(c) == (CHOOSE d \in 1..Len(DigitChars) : DigitChars[d] = c) - 1

\* the value of a non-empty string of digits
RECURSIVE digits_value(_)
digits_value(text) ==
    IF Len(text) = 1 THEN DigitVal(text[1])
    ELSE digits_value(SubSeq(text, 1, Len(text) - 1)) * Len(DigitChars)
             + DigitVal(text[Len(text)])

\* str::parse::<i32>: an optional sign, then at least one digit and nothing
\* else (the strings tried are too short to overflow an i32)
parse_i32(text) ==
    LET signed == Len(text) > 0 /\ (text[1] = "-" \/ text[1] = "+")
        digits == IF signed THEN Tail(text) ELSE text
    IN  IF Len(digits) = 0 \/ \E i \in 1..Len(digits) : ~IsDigit(digits[i])
        THEN Err("ParseIntError", "invalid digit or empty string")
        ELSE IF signed /\ text[1] = "-"
        THEN Ok(0 - digits_value(digits))
        ELSE Ok(digits_value(digits))

\* the digits of n >= 0
RECURSIVE digits_of(_)
digits_of(n) ==
    IF n < Len(DigitChars) THEN <<DigitChars[n + 1]>>
    ELSE digits_of(n \div Len(DigitChars))
             \o <<DigitChars[(n % Len(DigitChars)) + 1]>>

\* format!("{}", n) for an i32
display_i32(n) == IF n < 0 THEN <<"-">> \o digits_of(0 - n) ELSE digits_of(n)

\* str::split(';'): the pieces between the separators, empty ones included
RECURSIVE split_semicolon(_)
split_semicolon(text) ==
    IF \A i \in 1..Len(text) : text[i] # ";"
    THEN <<text>>
    ELSE LET i == CHOOSE k \in 1..Len(text) :
                      text[k] = ";" /\ \A j \in 1..(k - 1) : text[j] # ";"
         IN  <<SubSeq(text, 1, i - 1)>>
                 \o split_semicolon(SubSeq(text, i + 1, Len(text)))

\* str::trim_start_matches(':')
RECURSIVE trim_start_colons(_)
trim_start_colons(text) ==
    IF Len(text) > 0 /\ text[1] = ":" THEN trim_start_colons(Tail(text))
    ELSE text

\* one "start:stop" piece: the block, or the error returned for it
parse_piece(start_stop) ==
    IF \A i \in 1..Len(start_stop) : start_stop[i] # ":"
    THEN Err("ValueError", "separator \":\" not found")
    ELSE LET sep_idx == CHOOSE k \in 1..Len(start_stop) :
                            /\ start_stop[k] = ":"
                            /\ \A j \in (k + 1)..Len(start_stop) : start_stop[j] # ":"
             start == parse_i32(SubSeq(start_stop, 1, sep_idx - 1))
             stop == parse_i32(trim_start_colons(
                         SubSeq(start_stop, sep_idx, Len(start_stop))))
         IN  IF start.kind = "Err"
             THEN Err("ValueError", "cannot convert start value from &str to i32")
             ELSE IF stop.kind = "Err"
             THEN Err("ValueError", "cannot convert end value from &str to i32")
             ELSE check_new(start.val, stop.val)

\* the loop over the pieces: the blocks, or the first error
RECURSIVE parse_pieces(_, _)
parse_pieces(pieces, block_list) ==
    IF Len(pieces) = 0 THEN Ok(block_list)
    ELSE LET b == parse_piece(Head(pieces))
         IN  IF b.kind = "Err" THEN b
             ELSE parse_pieces(Tail(pieces), Append(block_list, b.val))

from_block_str(data_str) == parse_pieces(split_semicolon(data_str), <<>>)

\* format!("{}:{}", block.start, block.stop)
block_str(block) == display_i32(block.start) \o <<":">> \o display_i32(block.stop)

\* Vec<String>::join(";")
RECURSIVE join_semicolon(_)
join_semicolon(strs) ==
    IF Len(strs) = 0 THEN <<>>
    ELSE IF Len(strs) = 1 THEN strs[1]
    ELSE strs[1] \o <<";">> \o join_semicolon(Tail(strs))

to_block_str(block_list) ==
    Ok(join_semicolon([i \in 1..Len(block_list) |-> block_str(block_list[i])]))

(* ------------------------- array_to_blocks ----------------------------- *)

\* the stop value that closes a run ending at prev
close_stop(prev) == IF prev >= 0 THEN prev + 1 ELSE prev - 1

\* breaks_run testing current against prev instead of its successor
breaks_run_same_value(prev, current) ==
    IF prev >= 0 /\ current >= 0 THEN prev # current
    ELSE IF prev >= 0 /\ current < 0 THEN TRUE
    ELSE IF prev < 0 /\ current < 0 THEN prev # current
    ELSE TRUE

\* whether current ends the run that prev belongs to (the four cases)
breaks_run(prev, current) ==
    IF prev >= 0 /\ current >= 0 THEN prev + 1 # current
    ELSE IF prev >= 0 /\ current < 0 THEN TRUE
    ELSE IF prev < 0 /\ current < 0 THEN prev - 1 # current
    ELSE TRUE

\* the loop over range_list[1..], i is the index of current (1-based)
RECURSIVE array_scan(_, _, _, _, _)
array_scan(range_list, i, start, prev, block_list) ==
    IF i > Len(range_list)
    THEN LET last == check_new(start, close_stop(prev))
         IN  IF last.kind = "Err" THEN last
             ELSE Ok(Append(block_list, last.val))
    ELSE LET current == range_list[i]
         IN  IF breaks_run(prev, current)
             THEN LET b == check_new(start, close_stop(prev))
                  IN  IF b.kind = "Err" THEN b
                      ELSE array_scan(range_list, i + 1, current, current,
                                      Append(block_list, b.val))
             ELSE array_scan(range_list, i + 1, start, current, block_list)

array_to_blocks(range_list) ==
    IF Len(range_list) = 0
    THEN Panic("index out of bounds")
    ELSE array_scan(range_list, 2, range_list[1], range_list[1], <<>>)

(* ------------------------- blocks_to_array ----------------------------- *)

\* block_positions with the stop position unrolled too (forward blocks)
block_positions_inclusive(b) ==
    IF b.start <= b.stop
    THEN [i \in 1..(b.stop - b.start + 1) |-> b.start + i - 1]
    ELSE [i \in 1..(b.start - b.stop) |-> b.start - i + 1]

\* the positions one block unrolls to
block_positions(b) ==
    IF b.start <= b.stop
    THEN [i \in 1..(b.stop - b.start) |-> b.start + i - 1]
    ELSE [i \in 1..(b.start - b.stop) |-> b.start - i + 1]

RECURSIVE blocks_to_array(_)
blocks_to_array(block_list) ==
    IF Len(block_list) = 0 THEN <<>>
    ELSE block_positions(Head(block_list)) \o blocks_to_array(Tail(block_list))

(* ---------------------- option_array_to_blocks ------------------------- *)

\* Option<i32>: a present slot Some(v) or an absent slot None
Some(v) == <<v>>
None == <<>>
IsSome(x) == Len(x) = 1

\* the value of start that stands for "no block open" (-1e9 as i32)
Sentinel == -1000000000

\* one iteration of the loop over the zipped pairs (a, b);
\* st is [start, block_list], the result is Ok(st') or the error returned
opt_pair(st, a, b) ==
    IF IsSome(a)
    THEN LET prev == a[1]
             start == IF st.start = Sentinel THEN prev ELSE st.start
         IN  IF IsSome(b)
             THEN IF breaks_run(prev, b[1])
                  THEN LET blk == check_new(start, close_stop(prev))
                       IN  IF blk.kind = "Err" THEN blk
                           ELSE Ok([start |-> b[1],
                                    block_list |-> Append(st.block_list, blk.val)])
                  ELSE Ok([start |-> start, block_list |-> st.block_list])
             ELSE LET blk == check_new(start, close_stop(prev))
                  IN  IF blk.kind = "Err" THEN blk
                      ELSE Ok([start |-> Sentinel,
                               block_list |-> Append(st.block_list, blk.val)])
    ELSE IF IsSome(b)
         THEN Ok([start |-> b[1], block_list |-> st.block_list])
         ELSE Ok(st)

\* after the loop: flush the open block when the last slot is present
opt_flush(st, prev_item) ==
    IF IsSome(prev_item)
    THEN LET blk == check_new(st.start, close_stop(prev_item[1]))
         IN  IF blk.kind = "Err" THEN blk
             ELSE Ok(Append(st.block_list, blk.val))
    ELSE Ok(st.block_list)

\* the loop, i is the index of a (1-based); prev_item ends as the last slot
RECURSIVE opt_scan(_, _, _)
opt_scan(range_list, i, st) ==
    IF i >= Len(range_list)
    THEN opt_flush(st, range_list[Len(range_list)])
    ELSE LET r == opt_pair(st, range_list[i], range_list[i + 1])
         IN  IF r.kind = "Err" THEN r
             ELSE opt_scan(range_list, i + 1, r.val)

option_array_to_blocks(range_list) ==
    IF Len(range_list) = 0
    THEN Panic("index out of bounds")
    ELSE opt_scan(range_list, 1, [start |-> Sentinel, block_list |-> <<>>])

(* ------------------------ pairwise_to_blocks --------------------------- *)

\* the start of every gap-run block
GapRunStart == -1

\* the gap-run block that closes gap_cnt insertion columns
gap_block(gap_cnt) == check_new(GapRunStart, GapRunStart - gap_cnt)

\* which branch of a column's if/else chain the previous column selects:
\* 1 both filled, 2 filled/gapped, 3 both gapped (each with gap_cnt = 0),
\* 4 gapped/filled with gap_cnt > 0, 0 when no branch is taken
prev_case(st, g) ==
    IF st.gap_cnt = 0 /\ (st.prev_ref # g /\ st.prev_seq # g) THEN 1
    ELSE IF st.gap_cnt = 0 /\ (st.prev_ref # g /\ st.prev_seq = g) THEN 2
    ELSE IF st.gap_cnt = 0 /\ (st.prev_ref = g /\ st.prev_seq = g) THEN 3
    ELSE IF st.gap_cnt > 0 /\ (st.prev_ref = g /\ st.prev_seq # g) THEN 4
    ELSE 0

\* what print! writes for a branch of the chain when debug is set
trace_sym(k) ==
    IF k = 1 THEN "|" ELSE IF k = 2 THEN "_" ELSE IF k = 3 THEN "=" ELSE "-"

traced(st, debug, k) ==
    IF debug /\ k # 0
    THEN Append(st.stdout, <<trace_sym(k), st.seq_cnt>>)
    ELSE st.stdout

\* first_column counting the first reference position only when it is traced
first_column_counts_if_traced(ref_seq, other_seq, g, debug) ==
    LET prev_ref == ref_seq[1]
        prev_seq == other_seq[1]
    IN  [block_list |-> <<>>,
         seq_cnt |-> IF prev_ref # g /\ debug THEN 1 ELSE 0,
         gap_cnt |-> IF prev_ref = g /\ prev_seq # g THEN 1 ELSE 0,
         start |-> 0,
         prev_ref |-> prev_ref,
         prev_seq |-> prev_seq,
         stdout |-> IF debug THEN << <<"", 0>> >> ELSE <<>>]

\* the state after the first column
first_column(ref_seq, other_seq, g, debug) ==
    LET prev_ref == ref_seq[1]
        prev_seq == other_seq[1]
    IN  [block_list |-> <<>>,
         seq_cnt |-> IF prev_ref # g THEN 1 ELSE 0,
         gap_cnt |-> IF prev_ref = g /\ prev_seq # g THEN 1 ELSE 0,
         start |-> 0,
         prev_ref |-> prev_ref,
         prev_seq |-> prev_seq,
         stdout |-> IF debug THEN << <<"", 0>> >> ELSE <<>>]

\* the error of a rejected block, with what was printed before it
ErrOut(blk, out) ==
    [kind |-> "Err", exc |-> blk.exc, msg |-> blk.msg, stdout |-> out]

\* append blk to the state's block list
pushed(st, blk) == Append(st.block_list, blk.val)

\* current column filled in both sequences
col_both_filled(st, a, b, g, debug) ==
    LET k == prev_case(st, g)
        out == traced(st, debug, k)
        nxt == [st EXCEPT !.seq_cnt = @ + 1, !.prev_ref = a, !.prev_seq = b,
                          !.stdout = out]
    IN  IF k = 2 \/ k = 3
        THEN Ok([nxt EXCEPT !.start = st.seq_cnt])
        ELSE IF k = 4
        THEN LET blk == gap_block(st.gap_cnt)
             IN  IF blk.kind = "Err" THEN ErrOut(blk, out)
                 ELSE Ok([nxt EXCEPT !.block_list = pushed(st, blk),
                                     !.gap_cnt = 0, !.start = st.seq_cnt])
        ELSE Ok(nxt)

\* col_ref_only that does not count the reference position of the column
col_ref_only_uncounted(st, a, b, g, debug) ==
    LET k == prev_case(st, g)
        out == traced(st, debug, k)
        nxt == [st EXCEPT !.prev_ref = a, !.prev_seq = b, !.stdout = out]
    IN  IF k = 1
        THEN LET blk == check_new(st.start, st.seq_cnt)
             IN  IF blk.kind = "Err" THEN ErrOut(blk, out)
                 ELSE Ok([nxt EXCEPT !.block_list = pushed(st, blk)])
        ELSE IF k = 4
        THEN LET blk == gap_block(st.gap_cnt)
             IN  IF blk.kind = "Err" THEN ErrOut(blk, out)
                 ELSE Ok([nxt EXCEPT !.block_list = pushed(st, blk),
                                     !.gap_cnt = 0])
        ELSE Ok(nxt)

\* current column filled in the reference, gapped in the other sequence
col_ref_only(st, a, b, g, debug) ==
    LET k == prev_case(st, g)
        out == traced(st, debug, k)
        nxt == [st EXCEPT !.seq_cnt = @ + 1, !.prev_ref = a, !.prev_seq = b,
                          !.stdout = out]
    IN  IF k = 1
        THEN LET blk == check_new(st.start, st.seq_cnt)
             IN  IF blk.kind = "Err" THEN ErrOut(blk, out)
                 ELSE Ok([nxt EXCEPT !.block_list = pushed(st, blk)])
        ELSE IF k = 4
        THEN LET blk == gap_block(st.gap_cnt)
             IN  IF blk.kind = "Err" THEN ErrOut(blk, out)
                 ELSE Ok([nxt EXCEPT !.block_list = pushed(st, blk),
                                     !.gap_cnt = 0])
        ELSE Ok(nxt)

\* current column gapped in both sequences
col_both_gapped(st, a, b, g, debug) ==
    LET k == prev_case(st, g)
        out == traced(st, debug, k)
        nxt == [st EXCEPT !.prev_ref = a, !.prev_seq = b, !.stdout = out]
    IN  IF k = 1
        THEN LET blk == check_new(st.start, st.seq_cnt)
             IN  IF blk.kind = "Err" THEN ErrOut(blk, out)
                 ELSE Ok([nxt EXCEPT !.block_list = pushed(st, blk)])
        ELSE IF k = 4
        THEN LET blk == gap_block(st.gap_cnt)
             IN  IF blk.kind = "Err" THEN ErrOut(blk, out)
                 ELSE Ok([nxt EXCEPT !.block_list = pushed(st, blk),
                                     !.gap_cnt = 0])
        ELSE Ok(nxt)

\* current column gapped in the reference, filled in the other sequence
col_other_only(st, a, b, g, debug) ==
    LET k == prev_case(st, g)
        out == traced(st, debug, k)
        nxt == [st EXCEPT !.gap_cnt = @ + 1, !.prev_ref = a, !.prev_seq = b,
                          !.stdout = out]
    IN  IF k = 1
        THEN LET blk == check_new(st.start, st.seq_cnt)
             IN  IF blk.kind = "Err" THEN ErrOut(blk, out)
                 ELSE Ok([nxt EXCEPT !.block_list = pushed(st, blk),
                                     !.start = st.seq_cnt])
        ELSE Ok(nxt)

\* one iteration of the loop over the columns after the first
column(st, a, b, g, debug) ==
    IF a # g /\ b # g THEN col_both_filled(st, a, b, g, debug)
    ELSE IF a # g /\ b = g THEN col_ref_only(st, a, b, g, debug)
    ELSE IF a = g /\ b = g THEN col_both_gapped(st, a, b, g, debug)
    ELSE col_other_only(st, a, b, g, debug)

\* last_block closing the aligned run one position early
last_block_short(st, g, debug) ==
    LET k == IF st.gap_cnt > 0 THEN 4 ELSE prev_case(st, g)
        out == IF debug THEN Append(traced(st, debug, k), <<"\n", 0>>)
               ELSE st.stdout
        blk == IF st.gap_cnt > 0 THEN gap_block(st.gap_cnt)
               ELSE check_new(st.start, st.seq_cnt - 1)
    IN  IF st.gap_cnt > 0 \/ k = 1
        THEN IF blk.kind = "Err"
             THEN ErrOut(blk, traced(st, debug, k))
             ELSE [kind |-> "Ok", val |-> pushed(st, blk), stdout |-> out]
        ELSE [kind |-> "Ok", val |-> st.block_list, stdout |-> out]

\* after the loop: the last block, the newline and the return value
last_block(st, g, debug) ==
    LET k == IF st.gap_cnt > 0 THEN 4 ELSE prev_case(st, g)
        out == IF debug THEN Append(traced(st, debug, k), <<"\n", 0>>)
               ELSE st.stdout
        blk == IF st.gap_cnt > 0 THEN gap_block(st.gap_cnt)
               ELSE check_new(st.start, st.seq_cnt)
    IN  IF st.gap_cnt > 0 \/ k = 1
        THEN IF blk.kind = "Err"
             THEN ErrOut(blk, traced(st, debug, k))
             ELSE [kind |-> "Ok", val |-> pushed(st, blk), stdout |-> out]
        ELSE [kind |-> "Ok", val |-> st.block_list, stdout |-> out]

\* the loop, i is the index of the current column (1-based)
RECURSIVE pairwise_scan(_, _, _, _, _, _)
pairwise_scan(ref_seq, other_seq, i, st, g, debug) ==
    IF i > Len(ref_seq)
    THEN last_block(st, g, debug)
    ELSE LET r == column(st, ref_seq[i], other_seq[i], g, debug)
         IN  IF r.kind = "Err" THEN r
             ELSE pairwise_scan(ref_seq, other_seq, i + 1, r.val, g, debug)

\* pairwise_to_blocks reading the first characters before it compares
\* the lengths
pairwise_to_blocks_unwrap_first(ref_seq, other_seq, gap_char, debug) ==
    IF Len(ref_seq) = 0 \/ Len(other_seq) = 0 \/ Len(gap_char) = 0
    THEN [kind |-> "Panic", msg |-> "unwrap on None", stdout |-> <<>>]
    ELSE IF Len(ref_seq) # Len(other_seq)
    THEN [kind |-> "Err", exc |-> "ValueError",
          msg |-> "sequence lengths are not the same", stdout |-> <<>>]
    ELSE pairwise_scan(ref_seq, other_seq, 2,
                       first_column(ref_seq, other_seq, gap_char[1], debug),
                       gap_char[1], debug)

pairwise_to_blocks(ref_seq, other_seq, gap_char, debug) ==
    IF Len(ref_seq) # Len(other_seq)
    THEN [kind |-> "Err", exc |-> "ValueError",
          msg |-> "sequence lengths are not the same", stdout |-> <<>>]
    ELSE IF Len(ref_seq) = 0 \/ Len(gap_char) = 0
    THEN [kind |-> "Panic", msg |-> "unwrap on None", stdout |-> <<>>]
    ELSE pairwise_scan(ref_seq, other_seq, 2,
                       first_column(ref_seq, other_seq, gap_char[1], debug),
                       gap_char[1], debug)

(* --------------------------- remove_sites ------------------------------ *)

\* the value remove_sites returns, with the callees it went through
Returned(r, calls) ==
    IF r.kind = "Ok"
    THEN [kind |-> "Ok", val |-> r.val, calls |-> calls]
    ELSE IF r.kind = "Err"
    THEN [kind |-> "Err", exc |-> r.exc, msg |-> r.msg, calls |-> calls]
    ELSE [kind |-> "Panic", msg |-> r.msg, calls |-> calls]

\* sort_unstable followed by reverse: descending order
RECURSIVE sort_descending(_)
sort_descending(list) ==
    IF Len(list) = 0 THEN <<>>
    ELSE LET m == CHOOSE i \in 1..Len(list) :
                      \A j \in 1..Len(list) : list[i] >= list[j]
             rest == [j \in 1..(Len(list) - 1) |->
                          IF j < m THEN list[j] ELSE list[j + 1]]
         IN  <<list[m]>> \o sort_descending(rest)

\* Vec::remove(i) for a 0-based index i < len
vec_remove(v, i) ==
    [j \in 1..(Len(v) - 1) |-> IF j <= i THEN v[j] ELSE v[j + 1]]

\* the parallel Option array: block_array values at the non-gap characters
RECURSIVE fill_abs_pos(_, _, _, _)
fill_abs_pos(seq, block_array, g, x) ==
    IF Len(seq) = 0 THEN <<>>
    ELSE IF Head(seq) # g
    THEN <<Some(block_array[x + 1])>>
             \o fill_abs_pos(Tail(seq), block_array, g, x + 1)
    ELSE <<None>> \o fill_abs_pos(Tail(seq), block_array, g, x)

\* out_of_range accepting the index one past the end
out_of_range_off_by_one(i, v) == i > Len(v)

\* the bound check on a removal index
out_of_range(i, v) == i >= Len(v)

\* the removal loop over the sorted list; Ok([abs, chars]) or the IndexError
RECURSIVE remove_positions(_, _, _)
remove_positions(abs_pos_array, new_seq_array, sorted) ==
    IF Len(sorted) = 0
    THEN Ok([abs |-> abs_pos_array, chars |-> new_seq_array])
    ELSE LET i == Head(sorted)
         IN  IF out_of_range(i, abs_pos_array)
             THEN Err("IndexError", "position out of range")
             ELSE remove_positions(vec_remove(abs_pos_array, i),
                                   vec_remove(new_seq_array, i), Tail(sorted))

\* the length check of remove_sites
length_mismatch(block_array, seq, g) == Len(block_array) # Len(seq)

\* rebuild without the check for the empty result
rebuild_always_merge(rem) ==
    Returned(LET r == option_array_to_blocks(rem.abs)
             IN  IF r.kind = "Ok" THEN Ok(<<rem.chars, r.val>>) ELSE r,
             <<"blocks_to_array", "option_array_to_blocks">>)

\* after the removal loop: the empty result, or the rebuilt sequence and blocks
rebuild(rem) ==
    IF Len(rem.chars) = 0
    THEN Returned(Ok(<< <<>>, <<>> >>), <<"blocks_to_array">>)
    ELSE Returned(LET r == option_array_to_blocks(rem.abs)
                  IN  IF r.kind = "Ok" THEN Ok(<<rem.chars, r.val>>) ELSE r,
                  <<"blocks_to_array", "option_array_to_blocks">>)

\* remove_sites once remove_pos_list is known to be non-empty
remove_some(seq, block_list, remove_pos_list, gap_char) ==
    IF Len(gap_char) = 0
    THEN Returned(Panic("unwrap on None"), <<>>)
    ELSE LET g == gap_char[1]
             block_array == blocks_to_array(block_list)
         IN  IF length_mismatch(block_array, seq, g)
             THEN Returned(Err("ValueError",
                               "sequence length and block range are not equal"),
                           <<"blocks_to_array">>)
             ELSE LET rem == remove_positions(fill_abs_pos(seq, block_array, g, 0),
                                              seq,
                                              sort_descending(remove_pos_list))
                  IN  IF rem.kind = "Err"
                      THEN Returned(rem, <<"blocks_to_array">>)
                      ELSE rebuild(rem.val)

\* remove_sites without the early return on an empty remove_pos_list
remove_sites_validate_first(seq, block_list, remove_pos_list, gap_char) ==
    remove_some(seq, block_list, remove_pos_list, gap_char)

remove_sites(seq, block_list, remove_pos_list, gap_char) ==
    IF Len(remove_pos_list) = 0
    THEN Returned(Ok(<<seq, block_list>>), <<>>)
    ELSE remove_some(seq, block_list, remove_pos_list, gap_char)

(* --------------------------- input sets -------------------------------- *)

MinPos == -MaxNegPos

PosArrays == SeqsUpTo(MinPos..MaxPos, MaxLen)

Slots == {None} \cup {Some(v) : v \in MinPos..MaxPos}

SparseArrays == SeqsUpTo(Slots, MaxSparseLen)

Blocks == {Block(s, t) : s \in GapRunStart..MaxCoord, t \in GapRunStart..MaxCoord}

BlockLists == SeqsUpTo(Blocks, MaxBlocks)

\* characters of aligned sequences, and the gap_char arguments tried
\* (the empty string, on which chars().next() is None)
AlnChars == {"A", "-"}
AlnGapStrs == {<<>>, <<"-">>, <<"A">>}

AlnSeqs == SeqsUpTo(AlnChars, MaxAlnLen)

\* characters of the sequences handed to remove_sites, and the gap_char
\* arguments tried
SeqChars == {"A", "C", "-"}
GapStrs == {<<>>, <<"-">>}

SiteSeqs == SeqsUpTo(SeqChars, MaxSeqLen)

\* removal lists for seq: indices up to one past its end, any order,
\* repetitions included
RemoveLists(seq) == SeqsUpTo(0..Len(seq), MaxRemove)

\* arguments of the two Block constructors
NewArgs == [start : MinPos..MaxPos, stop : MinPos..MaxPos]

\* characters of the texts handed to from_block_str
TextChars == {"1", "3", ":", ";", "-"}

Texts == SeqsUpTo(TextChars, MaxTextLen)

TextBlocks ==
    {Block(s, t) : s \in -MaxTextCoord..MaxTextCoord,
                   t \in -MaxTextCoord..MaxTextCoord}

TextBlockLists == SeqsUpTo(TextBlocks, MaxTextBlocks)

(* --------------------------- state machine ----------------------------- *)

NoRet == [kind |-> "None"]

InitArrayToBlocks ==
    /\ fn = "array_to_blocks"
    /\ args \in [range_list : PosArrays]

InitBlocksToArray ==
    /\ fn = "blocks_to_array"
    /\ args \in [block_list : BlockLists]

InitOptionArrayToBlocks ==
    /\ fn = "option_array_to_blocks"
    /\ args \in [range_list : SparseArrays]

InitPairwiseToBlocks ==
    /\ fn = "pairwise_to_blocks"
    /\ args \in [ref_seq : AlnSeqs, other_seq : AlnSeqs,
                 gap_char : AlnGapStrs, debug : BOOLEAN]

InitRemoveSites ==
    /\ fn = "remove_sites"
    /\ \E seq \in SiteSeqs :
           args \in [seq : {seq}, block_list : BlockLists,
                     remove_pos_list : RemoveLists(seq), gap_char : GapStrs]

InitCheckNew ==
    /\ fn = "check_new"
    /\ args \in NewArgs

InitPyNew ==
    /\ fn = "__new__"
    /\ args \in NewArgs

InitFromBlockStr ==
    /\ fn = "from_block_str"
    /\ args \in [data_str : Texts]

InitToBlockStr ==
    /\ fn = "to_block_str"
    /\ args \in [block_list : TextBlockLists]

CheckNew ==
    /\ pc = "call"
    /\ fn = "check_new"
    /\ ret' = check_new(args.start, args.stop)
    /\ pc' = "done"
    /\ UNCHANGED <<fn, args>>

PyNew ==
    /\ pc = "call"
    /\ fn = "__new__"
    /\ ret' = py_new(args.start, args.stop)
    /\ pc' = "done"
    /\ UNCHANGED <<fn, args>>

FromBlockStr ==
    /\ pc = "call"
    /\ fn = "from_block_str"
    /\ ret' = from_block_str(args.data_str)
    /\ pc' = "done"
    /\ UNCHANGED <<fn, args>>

ToBlockStr ==
    /\ pc = "call"
    /\ fn = "to_block_str"
    /\ ret' = to_block_str(args.block_list)
    /\ pc' = "done"
    /\ UNCHANGED <<fn, args>>

ArrayToBlocks ==
    /\ pc = "call"
    /\ fn = "array_to_blocks"
    /\ ret' = array_to_blocks(args.range_list)
    /\ pc' = "done"
    /\ UNCHANGED <<fn, args>>

BlocksToArray ==
    /\ pc = "call"
    /\ fn = "blocks_to_array"
    /\ ret' = Ok(blocks_to_array(args.block_list))
    /\ pc' = "done"
    /\ UNCHANGED <<fn, args>>

OptionArrayToBlocks ==
    /\ pc = "call"
    /\ fn = "option_array_to_blocks"
    /\ ret' = option_array_to_blocks(args.range_list)
    /\ pc' = "done"
    /\ UNCHANGED <<fn, args>>

PairwiseToBlocks ==
    /\ pc = "call"
    /\ fn = "pairwise_to_blocks"
    /\ ret' = pairwise_to_blocks(args.ref_seq, args.other_seq,
                                 args.gap_char, args.debug)
    /\ pc' = "done"
    /\ UNCHANGED <<fn, args>>

RemoveSites ==
    /\ pc = "call"
    /\ fn = "remove_sites"
    /\ ret' = remove_sites(args.seq, args.block_list,
                           args.remove_pos_list, args.gap_char)
    /\ pc' = "done"
    /\ UNCHANGED <<fn, args>>

\* the position-array codec: array_to_blocks, blocks_to_array and
\* option_array_to_blocks
InitCodec ==
    /\ pc = "call"
    /\ ret = NoRet
    /\ \/ InitArrayToBlocks
       \/ InitBlocksToArray
       \/ InitOptionArrayToBlocks

NextCodec ==
    \/ ArrayToBlocks
    \/ BlocksToArray
    \/ OptionArrayToBlocks

SpecCodec == InitCodec /\ [][NextCodec]_vars

\* pairwise_to_blocks
InitAlign ==
    /\ pc = "call"
    /\ ret = NoRet
    /\ InitPairwiseToBlocks

NextAlign == PairwiseToBlocks

SpecAlign == InitAlign /\ [][NextAlign]_vars

\* remove_sites
InitRemove ==
    /\ pc = "call"
    /\ ret = NoRet
    /\ InitRemoveSites

NextRemove == RemoveSites

SpecRemove == InitRemove /\ [][NextRemove]_vars

\* the Block constructors and the text form of a block list
InitText ==
    /\ pc = "call"
    /\ ret = NoRet
    /\ \/ InitCheckNew
       \/ InitPyNew
       \/ InitFromBlockStr
       \/ InitToBlockStr

NextText ==
    \/ CheckNew
    \/ PyNew
    \/ FromBlockStr
    \/ ToBlockStr

SpecText == InitText /\ [][NextText]_vars

\* every function
Init ==
    /\ pc = "call"
    /\ ret = NoRet
    /\ \/ InitArrayToBlocks
       \/ InitBlocksToArray
       \/ InitOptionArrayToBlocks
       \/ InitPairwiseToBlocks
       \/ InitRemoveSites
       \/ InitCheckNew
       \/ InitPyNew
       \/ InitFromBlockStr
       \/ InitToBlockStr

Next ==
    \/ ArrayToBlocks
    \/ BlocksToArray
    \/ OptionArrayToBlocks
    \/ PairwiseToBlocks
    \/ RemoveSites
    \/ CheckNew
    \/ PyNew
    \/ FromBlockStr
    \/ ToBlockStr

Spec == Init /\ [][Next]_vars

(* ------------------------------ claims --------------------------------- *)

Called(f) == fn = f /\ pc = "done"

\* number of positions a block list unrolls to, without unrolling it
RECURSIVE unrolled_len(_)
unrolled_len(block_list) ==
    IF Len(block_list) = 0 THEN 0
    ELSE LET b == Head(block_list)
         IN  (IF b.start <= b.stop THEN b.stop - b.start ELSE b.start - b.stop)
                 + unrolled_len(Tail(block_list))

\* C1: for every non-empty position array P (non-negative, negative or
\* mixed) array_to_blocks(P) succeeds and blocks_to_array of the result is P.
C1_RoundTrip ==
    (Called("array_to_blocks") /\ Len(args.range_list) > 0)
        => /\ ret.kind = "Ok"
           /\ blocks_to_array(ret.val) = args.range_list

\* C2: for every block list B that array_to_blocks returns successfully,
\* array_to_blocks(blocks_to_array(B)) returns exactly B.
C2_ReEncode ==
    (Called("array_to_blocks") /\ ret.kind = "Ok")
        => array_to_blocks(blocks_to_array(ret.val)) = Ok(ret.val)

\* a successful encoding with several blocks, one of them a merged run
C2_Witness ==
    /\ Called("array_to_blocks")
    /\ ret.kind = "Ok"
    /\ Len(ret.val) >= 2
    /\ Len(args.range_list) > Len(ret.val)
    /\ array_to_blocks(blocks_to_array(ret.val)) = Ok(ret.val)

\* the 1-based indices of seq that are left after the removal loop has run
\* over remove_pos_list (Err when the loop stops on an index out of range)
Survivors(seq, remove_pos_list) ==
    LET idx == [p \in 1..Len(seq) |-> p]
    IN  remove_positions(idx, idx, sort_descending(remove_pos_list))

\* the coordinate that block_array gives to the non-gap character seq[p]
CoordOf(seq, block_array, g, p) ==
    block_array[Cardinality({q \in 1..p : seq[q] # g})]

\* the coordinates of the non-gap characters among the indices kept
RECURSIVE KeptCoords(_, _, _, _)
KeptCoords(seq, block_array, g, kept) ==
    IF Len(kept) = 0 THEN <<>>
    ELSE (IF seq[Head(kept)] # g
          THEN <<CoordOf(seq, block_array, g, Head(kept))>> ELSE <<>>)
             \o KeptCoords(seq, block_array, g, Tail(kept))

\* C3: whenever remove_sites succeeds with a non-empty removal list, the
\* returned blocks unroll to the coordinates that the input blocks gave to
\* the non-gap characters that survive, in order, whatever the result length.
C3_BlocksFollowSequence ==
    (Called("remove_sites") /\ Len(args.remove_pos_list) > 0 /\ ret.kind = "Ok")
        => LET g == args.gap_char[1]
               kept == Survivors(args.seq, args.remove_pos_list).val.chars
               want == KeptCoords(args.seq, blocks_to_array(args.block_list),
                                  g, kept)
           IN  /\ unrolled_len(ret.val[2]) = Len(want)
               /\ blocks_to_array(ret.val[2]) = want

\* the lengths of the maximal runs of insertion columns (reference gapped,
\* other filled), left to right; run is the length of the run that is open
RECURSIVE InsertionRuns(_, _, _, _, _)
InsertionRuns(ref_seq, other_seq, g, i, run) ==
    IF i > Len(ref_seq)
    THEN IF run > 0 THEN <<run>> ELSE <<>>
    ELSE IF ref_seq[i] = g /\ other_seq[i] # g
    THEN InsertionRuns(ref_seq, other_seq, g, i + 1, run + 1)
    ELSE (IF run > 0 THEN <<run>> ELSE <<>>)
             \o InsertionRuns(ref_seq, other_seq, g, i + 1, 0)

\* the alignment is a aligned columns, k insertion columns, b aligned columns
IsAlignedInsertAligned(ref_seq, other_seq, g, a, k, b) ==
    /\ Len(ref_seq) = a + k + b
    /\ \A i \in 1..Len(ref_seq) :
          /\ other_seq[i] # g
          /\ (ref_seq[i] = g) <=> (i > a /\ i <= a + k)

\* C4: pairwise_to_blocks succeeds on an alignment with insertion columns;
\* each maximal run of k insertion columns is one block (-1, -1-k), in order;
\* a aligned, k insertion, b aligned columns give [(0,a), (-1,-1-k), (a,a+b)].
C4_InsertionRuns ==
    (/\ Called("pairwise_to_blocks")
     /\ Len(args.gap_char) = 1
     /\ Len(args.ref_seq) = Len(args.other_seq)
     /\ InsertionRuns(args.ref_seq, args.other_seq, args.gap_char[1], 1, 0) # <<>>)
        => LET g == args.gap_char[1]
               runs == InsertionRuns(args.ref_seq, args.other_seq, g, 1, 0)
           IN  /\ ret.kind = "Ok"
               /\ SelectSeq(ret.val, LAMBDA blk : blk.start < 0)
                      = [j \in 1..Len(runs) |-> Block(GapRunStart, GapRunStart - runs[j])]
               /\ \A a, k, b \in 1..Len(args.ref_seq) :
                      IsAlignedInsertAligned(args.ref_seq, args.other_seq, g, a, k, b)
                          => ret.val = <<Block(0, a), Block(-1, -1 - k),
                                         Block(a, a + b)>>

\* range_list is an ascending run of n non-negative positions followed by a
\* descending run of negative positions
IsForwardThenReverse(range_list, n) ==
    /\ n >= 1
    /\ n < Len(range_list)
    /\ \A i \in 1..n : range_list[i] >= 0
    /\ \A i \in (n + 1)..Len(range_list) : range_list[i] < 0
    /\ \A i \in 1..(n - 1) : range_list[i + 1] = range_list[i] + 1
    /\ \A i \in (n + 1)..(Len(range_list) - 1) :
          range_list[i + 1] = range_list[i] - 1

\* C5: an ascending run of non-negative positions followed by a descending
\* run of negative positions encodes as the forward block and the reverse
\* block, e.g. [0,1,2,-1,-2] as [(0,3), (-1,-3)].
C5_DirectionSwitch ==
    Called("array_to_blocks")
        => \A n \in 1..Len(args.range_list) :
               IsForwardThenReverse(args.range_list, n)
                   => LET P == args.range_list
                      IN  ret = Ok(<<Block(P[1], P[n] + 1),
                                     Block(P[n + 1], P[Len(P)] - 1)>>)

\* neither sequence holds the gap character
NoGaps(ref_seq, other_seq, g) ==
    /\ \A i \in 1..Len(ref_seq) : ref_seq[i] # g
    /\ \A i \in 1..Len(other_seq) : other_seq[i] # g

\* C6: for two sequences of equal length n >= 1 without the gap symbol,
\* pairwise_to_blocks returns exactly the single block (0, n).
C6_NoGapsOneBlock ==
    (/\ Called("pairwise_to_blocks")
     /\ Len(args.gap_char) = 1
     /\ Len(args.ref_seq) = Len(args.other_seq)
     /\ Len(args.ref_seq) >= 1
     /\ NoGaps(args.ref_seq, args.other_seq, args.gap_char[1]))
        => /\ ret.kind = "Ok"
           /\ ret.val = <<Block(0, Len(args.ref_seq))>>

\* two gap-free sequences of four columns, as in "ACGT" against "ACGT"
C6_Witness ==
    /\ Called("pairwise_to_blocks")
    /\ args.gap_char = <<"-">>
    /\ Len(args.ref_seq) = 4
    /\ Len(args.other_seq) = 4
    /\ NoGaps(args.ref_seq, args.other_seq, "-")
    /\ ret.kind = "Ok"
    /\ ret.val = <<Block(0, 4)>>

\* C7: with an empty removal list remove_sites returns the input sequence
\* and a block list equal to the input one, whatever the other arguments.
C7_EmptyRemovalNoop ==
    (Called("remove_sites") /\ Len(args.remove_pos_list) = 0)
        => /\ ret.kind = "Ok"
           /\ ret.val = <<args.seq, args.block_list>>

\* an empty removal list with an empty gap_char and blocks that do not fit
\* the sequence
C7_Witness ==
    /\ Called("remove_sites")
    /\ Len(args.remove_pos_list) = 0
    /\ Len(args.gap_char) = 0
    /\ Len(args.block_list) > 0
    /\ unrolled_len(args.block_list) # Len(args.seq)
    /\ ret.kind = "Ok"
    /\ ret.val = <<args.seq, args.block_list>>

IsLengthMismatch(r) ==
    /\ r.kind = "Err"
    /\ r.exc = "ValueError"
    /\ r.msg = "sequence length and block range are not equal"

IsIndexOutOfRange(r) ==
    /\ r.kind = "Err"
    /\ r.exc = "IndexError"

NonGapCount(seq, g) == Cardinality({p \in 1..Len(seq) : seq[p] # g})

\* C8: with a non-empty removal list remove_sites fails with the length
\* mismatch exactly when the blocks unroll to a number of coordinates other
\* than the number of non-gap characters of the sequence.
C8_MismatchIffNonGapCount ==
    (/\ Called("remove_sites")
     /\ Len(args.remove_pos_list) > 0
     /\ Len(args.gap_char) = 1)
        => (IsLengthMismatch(ret)
               <=> unrolled_len(args.block_list)
                       # NonGapCount(args.seq, args.gap_char[1]))

HasIndexPastEnd ==
    \E j \in 1..Len(args.remove_pos_list) :
        args.remove_pos_list[j] >= Len(args.seq)

\* C9 as stated: remove_sites fails with the index error if any index of the
\* removal list is >= the length of the sequence.
C9_AlwaysIndexError ==
    (Called("remove_sites") /\ Len(args.gap_char) = 1 /\ HasIndexPastEnd)
        => IsIndexOutOfRange(ret)

\* C9 amended: if any index of the removal list is >= the length of the
\* sequence, remove_sites returns an error and no result: the index error
\* (whatever the position of the index in the list), unless the length check
\* that runs first rejects the call, and then the length mismatch.
C9_ErrorAfterLengthCheck ==
    (Called("remove_sites") /\ Len(args.gap_char) = 1 /\ HasIndexPastEnd)
        => IF length_mismatch(blocks_to_array(args.block_list), args.seq,
                              args.gap_char[1])
           THEN IsLengthMismatch(ret)
           ELSE IsIndexOutOfRange(ret)

\* the index past the end comes second in the list, after a valid one, and
\* the length check passes
C9_Witness ==
    /\ Called("remove_sites")
    /\ Len(args.gap_char) = 1
    /\ Len(args.remove_pos_list) = 2
    /\ args.remove_pos_list[1] < Len(args.seq)
    /\ args.remove_pos_list[2] >= Len(args.seq)
    /\ unrolled_len(args.block_list) = Len(args.seq)
    /\ IsIndexOutOfRange(ret)

\* the removal loop runs to its end and leaves no character
RemovesEverything ==
    /\ Len(args.remove_pos_list) > 0
    /\ Len(args.gap_char) = 1
    /\ unrolled_len(args.block_list) = Len(args.seq)
    /\ Survivors(args.seq, args.remove_pos_list).kind = "Ok"
    /\ Survivors(args.seq, args.remove_pos_list).val.chars = <<>>

C11_LengthMismatchFirst ==
    (Called("pairwise_to_blocks") /\ Len(args.ref_seq) # Len(args.other_seq))
        => /\ ret.kind = "Err"
           /\ ret.exc = "ValueError"
           /\ ret.msg = "sequence lengths are not the same"
           /\ ret.stdout = <<>>

\* different lengths, one sequence empty, the trace switched on
C11_Witness ==
    /\ Called("pairwise_to_blocks")
    /\ Len(args.ref_seq) = 0
    /\ Len(args.other_seq) = 3
    /\ args.debug
    /\ ret.kind = "Err"
    /\ ret.msg = "sequence lengths are not the same"

\* C12: array_to_blocks applied to an empty position array returns an error
\* value; it does not abort.
C12_EmptyInputIsError ==
    (Called("array_to_blocks") /\ Len(args.range_list) = 0)
        => ret.kind = "Err"

\* C13: validated Block construction with stop = start fails, so neither the
\* validating constructors nor from_block_str (e.g. on "3:3") yield a
\* zero-width block.
C13_NoZeroWidthBlock ==
    /\ ((Called("check_new") \/ Called("__new__")) /\ args.start = args.stop)
           => ret.kind = "Err"
    /\ (Called("from_block_str") /\ ret.kind = "Ok")
           => \A i \in 1..Len(ret.val) : ret.val[i].start # ret.val[i].stop

\* a forward block (start >= 0, stop > start) or a reverse or gap-run block
\* (start < 0, stop < start)
IsValidBlock(b) ==
    \/ b.start >= 0 /\ b.stop > b.start
    \/ b.start < 0 /\ b.stop < b.start

\* C14: from_block_str(to_block_str(B)) is B for every list B of valid
\* blocks, forward and reverse, e.g. [(0,5), (-1,-4)] through "0:5;-1:-4".
C14_TextRoundTrip ==
    (/\ Called("to_block_str")
     /\ Len(args.block_list) >= 1
     /\ \A i \in 1..Len(args.block_list) : IsValidBlock(args.block_list[i]))
        => /\ ret.kind = "Ok"
           /\ from_block_str(ret.val) = Ok(args.block_list)

\* two consecutive blocks of the same direction of which the second starts
\* where the first stops
Mergeable(x, y) ==
    /\ y.start = x.stop
    /\ \/ x.start >= 0 /\ y.start >= 0
       \/ x.start < 0 /\ y.start < 0

\* C15: a block list returned by array_to_blocks is minimal (no two
\* consecutive blocks are mergeable) and its blocks come in the order of the
\* positions they cover.
C15_Minimal ==
    (Called("array_to_blocks") /\ ret.kind = "Ok")
        => /\ \A i \in 1..(Len(ret.val) - 1) : ~Mergeable(ret.val[i], ret.val[i + 1])
           /\ blocks_to_array(ret.val) = args.range_list

\* an output of three blocks, the first a run of two positions, the second
\* starting somewhere else than where the first stops
C15_Witness ==
    /\ Called("array_to_blocks")
    /\ ret.kind = "Ok"
    /\ Len(ret.val) = 3
    /\ ret.val[1].stop - ret.val[1].start = 2
    /\ ret.val[2].start # ret.val[1].stop
    /\ ~Mergeable(ret.val[2], ret.val[3])

\* C16: in a block list returned by pairwise_to_blocks no two consecutive
\* forward blocks X, Y have Y.start = X.stop, also when the two aligned runs
\* are separated only by columns gapped in both sequences.
C16_AlignedRunsMerged ==
    (Called("pairwise_to_blocks") /\ ret.kind = "Ok")
        => \A i \in 1..(Len(ret.val) - 1) : ~Mergeable(ret.val[i], ret.val[i + 1])

\* C17: every block in a successful output of array_to_blocks,
\* option_array_to_blocks or pairwise_to_blocks has start # stop: stop > start
\* for a forward block, stop < start for a reverse or gap-run block.
C17_BlocksWellFormed ==
    (/\ \/ Called("array_to_blocks")
        \/ Called("option_array_to_blocks")
        \/ Called("pairwise_to_blocks")
     /\ ret.kind = "Ok")
        => \A i \in 1..Len(ret.val) : IsValidBlock(ret.val[i])

\* what a call returns to its caller: the value or the error, not the trace
Outcome(r) ==
    IF r.kind = "Ok" THEN <<"Ok", r.val>>
    ELSE IF r.kind = "Err" THEN <<"Err", r.exc, r.msg>>
    ELSE <<"Panic">>

C19_NeverAborts ==
    (Called("pairwise_to_blocks") /\ Len(args.ref_seq) = Len(args.other_seq))
        => ret.kind \in {"Ok", "Err"}

\* every slot of the sparse array is present
AllPresent(range_list) == \A i \in 1..Len(range_list) : IsSome(range_list[i])

\* C20: on a non-empty sparse array whose slots are all present,
\* option_array_to_blocks returns what array_to_blocks returns on the plain
\* array (same blocks or same error), for every length, length 1 included.
C20_DenseAgreesWithEncode ==
    (/\ Called("option_array_to_blocks")
     /\ Len(args.range_list) >= 1
     /\ AllPresent(args.range_list))
        => ret = array_to_blocks([i \in 1..Len(args.range_list) |->
                                      args.range_list[i][1]])

\* the number of present slots among the first i
PresentRank(range_list, i) ==
    Cardinality({p \in 1..i : IsSome(range_list[p])})

\* the number of positions a block stands for
block_width(b) == IF b.stop >= b.start THEN b.stop - b.start ELSE b.start - b.stop

RECURSIVE BlockOfRank(_, _, _)
\* the index of the block that holds the k-th position of the decoded list
\* (0 when the list is shorter), looking from block n on
BlockOfRank(block_list, n, k) ==
    IF n > Len(block_list) THEN 0
    ELSE IF k <= block_width(block_list[n]) THEN n
    ELSE BlockOfRank(block_list, n + 1, k - block_width(block_list[n]))

\* slots i < j are present, only absent slots lie between them, and their
\* values are adjacent in the same direction
AdjacentAcrossAbsent(range_list, i, j) ==
    /\ i + 1 < j
    /\ IsSome(range_list[i]) /\ IsSome(range_list[j])
    /\ \A p \in (i + 1)..(j - 1) : ~IsSome(range_list[p])
    /\ LET a == range_list[i][1]
           b == range_list[j][1]
       IN  \/ a >= 0 /\ b >= 0 /\ b = a + 1
           \/ a < 0 /\ b < 0 /\ b = a - 1

\* C21: when option_array_to_blocks returns blocks, two present values that
\* are adjacent in the same direction and separated only by absent slots lie
\* in the same output block.
C21_RunAcrossAbsent ==
    (Called("option_array_to_blocks") /\ ret.kind = "Ok")
        => \A i, j \in 1..Len(args.range_list) :
               AdjacentAcrossAbsent(args.range_list, i, j)
                   => /\ BlockOfRank(ret.val, 1, PresentRank(args.range_list, i)) # 0
                      /\ BlockOfRank(ret.val, 1, PresentRank(args.range_list, i))
                           = BlockOfRank(ret.val, 1, PresentRank(args.range_list, j))

\* the number of non-gap reference characters strictly before column i
RefCoord(ref_seq, g, i) ==
    Cardinality({p \in 1..(i - 1) : ref_seq[p] # g})

RECURSIVE AlignedCoords(_, _, _, _)
\* the reference coordinates of the columns from i on where both sequences
\* are non-gap, left to right
AlignedCoords(ref_seq, other_seq, g, i) ==
    IF i > Len(ref_seq) THEN <<>>
    ELSE (IF ref_seq[i] # g /\ other_seq[i] # g
          THEN <<RefCoord(ref_seq, g, i)>> ELSE <<>>)
             \o AlignedCoords(ref_seq, other_seq, g, i + 1)

\* the blocks of a list that start at a reference coordinate
ForwardBlocks(block_list) == SelectSeq(block_list, LAMBDA blk : blk.start >= 0)

\* C22: whenever pairwise_to_blocks returns blocks, unrolling the forward
\* blocks (start >= 0) in list order gives exactly the reference coordinates
\* of the columns where both sequences are non-gap, ascending and without
\* repetition.
C22_ForwardBlocksAreAlignedColumns ==
    (Called("pairwise_to_blocks") /\ ret.kind = "Ok")
        => blocks_to_array(ForwardBlocks(ret.val))
               = AlignedCoords(args.ref_seq, args.other_seq, args.gap_char[1], 1)

\* an alignment with a deletion in the middle: two forward blocks that skip
\* the reference coordinate of the deleted column
C22_Witness ==
    /\ Called("pairwise_to_blocks")
    /\ ret.kind = "Ok"
    /\ Len(ret.val) = 2
    /\ ret.val[1].start = 0
    /\ ret.val[2].start > ret.val[1].stop
    /\ blocks_to_array(ret.val)
           = AlignedCoords(args.ref_seq, args.other_seq, args.gap_char[1], 1)

RECURSIVE WithoutSites(_, _, _)
\* seq from its p-th character on, without the characters whose 0-based
\* index is in sites
WithoutSites(seq, sites, p) ==
    IF p > Len(seq) THEN <<>>
    ELSE (IF (p - 1) \in sites THEN <<>> ELSE <<seq[p]>>)
             \o WithoutSites(seq, sites, p + 1)

\* the set of indices a removal list names
SitesOf(remove_pos_list) ==
    {remove_pos_list[k] : k \in 1..Len(remove_pos_list)}

\* C23: for a non-empty removal list whose indices are all below the length
\* of the sequence, on a call that passes the length check (forward blocks),
\* remove_sites succeeds and returns the sequence without exactly the
\* characters at the listed indices, whatever the order of the list and
\* however often an index is repeated in it.
C23_ExactlyListedSitesRemoved ==
    (/\ Called("remove_sites")
     /\ Len(args.remove_pos_list) > 0
     /\ \A k \in 1..Len(args.remove_pos_list) :
            args.remove_pos_list[k] < Len(args.seq)
     /\ Len(args.gap_char) = 1
     /\ \A n \in 1..Len(args.block_list) :
            args.block_list[n].start >= 0
              /\ args.block_list[n].stop >= args.block_list[n].start
     /\ ~length_mismatch(blocks_to_array(args.block_list), args.seq,
                         args.gap_char[1]))
        => /\ ret.kind = "Ok"
           /\ ret.val[1] = WithoutSites(args.seq, SitesOf(args.remove_pos_list), 1)

====
